---- MODULE Spec2Model ----
(***************************************************************************)
(* Model of llm/default_plugins/openai_models.py: the message builder,     *)
(* the attachment encoder, the streaming/non-streaming executors           *)
(* (Chat.execute, AsyncChat.execute, Completion.execute), combine_chunks,  *)
(* set_usage and redact_data.                                              *)
(*                                                                         *)
(* Python values are tagged records, so that None, strings, integers,      *)
(* lists and dicts stay distinguishable:                                   *)
(*   None            [t |-> "none"]                                        *)
(*   S(s)            a str; s is a TLA+ string, or a tuple of characters   *)
(*                   where the code inspects the text (URLs, MIME types,   *)
(*                   JSON argument text)                                   *)
(*   I(n)            an int                                                *)
(*   L(xs)           a list                                                *)
(*   D(r)            a dict, r a function from keys to values              *)
(* Objects with attributes (chunks, choices, deltas, prompts) are plain    *)
(* records.                                                                *)
(***************************************************************************)
EXTENDS Integers, Sequences, FiniteSets, TLC

None == [t |-> "none"]
S(s) == [t |-> "str", s |-> s]
I(n) == [t |-> "int", n |-> n]
L(xs) == [t |-> "list", items |-> xs]
D(r) == [t |-> "dict", d |-> r]

IsDict(v) == v.t = "dict"
IsList(v) == v.t = "list"

\* Python truthiness of an optional str / int / list / dict.
Truthy(v) ==
    CASE v.t = "none" -> FALSE
      [] v.t = "str" -> Len(v.s) > 0
      [] v.t = "int" -> v.n # 0
      [] v.t = "list" -> Len(v.items) > 0
      [] v.t = "dict" -> DOMAIN v.d # {}

\* str.startswith on character tuples.
StartsWith(s, p) == Len(s) >= Len(p) /\ SubSeq(s, 1, Len(p)) = p

\* getattr(obj, key, None)
GetAttr(obj, key) == IF key \in DOMAIN obj THEN obj[key] ELSE None

\* The empty function: an empty dict's content.
Empty == <<>>

(***************************************************************************)
(* Character-level literals the code inspects or builds.                   *)
(***************************************************************************)
DATA_PREFIX == <<"d", "a", "t", "a", ":">>
BASE64_SEP == <<";", "b", "a", "s", "e", "6", "4", ",">>
IMAGE_PREFIX == <<"i", "m", "a", "g", "e", "/">>
AUDIO_PREFIX == <<"a", "u", "d", "i", "o", "/">>
IMAGE_PNG == <<"i", "m", "a", "g", "e", "/", "p", "n", "g">>
AUDIO_WAV == <<"a", "u", "d", "i", "o", "/", "w", "a", "v">>
AUDIO_MPEG == <<"a", "u", "d", "i", "o", "/", "m", "p", "e", "g">>
APPLICATION_PDF ==
    <<"a", "p", "p", "l", "i", "c", "a", "t", "i", "o", "n", "/", "p", "d", "f">>
PDF_SUFFIX == <<".", "p", "d", "f">>
REDACTED_URL == <<"d", "a", "t", "a", ":", ".", ".", ".">>
REDACTED_DATA == <<".", ".", ".">>

(***************************************************************************)
(* json.loads / json.dumps on the argument texts the model uses: objects   *)
(* without members and non-negative integers.  Everything else over the    *)
(* alphabet of the tool-call fragments is rejected, as json.loads rejects  *)
(* it (empty text, unbalanced braces, trailing data, leading zeros).       *)
(***************************************************************************)
Digits == <<"0", "1", "2", "3", "4", "5", "6", "7", "8", "9">>

DigitValue(c) == CHOOSE d \in 0..9 : Digits[d + 1] = c

IsDigit(c) == \E d \in 0..9 : Digits[d + 1] = c

RECURSIVE DecimalValue(_)
DecimalValue(s) ==
    IF s = <<>> THEN 0
    ELSE 10 * DecimalValue(SubSeq(s, 1, Len(s) - 1)) + DigitValue(s[Len(s)])

IsJsonInt(s) ==
    /\ Len(s) > 0
    /\ \A i \in 1..Len(s) : IsDigit(s[i])
    /\ (Len(s) > 1 => s[1] # "0")

\* [ok |-> TRUE, value |-> v] or [ok |-> FALSE] (json.JSONDecodeError).
json_loads(s) ==
    IF s = <<"{", "}">> THEN [ok |-> TRUE, value |-> D(Empty)]
    ELSE IF IsJsonInt(s) THEN [ok |-> TRUE, value |-> I(DecimalValue(s))]
    ELSE [ok |-> FALSE]

RECURSIVE DecimalText(_)
DecimalText(n) ==
    IF n < 10 THEN <<Digits[n + 1]>>
    ELSE DecimalText(n \div 10) \o <<Digits[(n % 10) + 1]>>

json_dumps(v) ==
    IF v.t = "int" THEN DecimalText(v.n) ELSE <<"{", "}">>

(***************************************************************************)
(* _attachment: one attachment to one content part (lines 430-456).        *)
(* An attachment is [type, url, base64, id]; url is None or S(chars).      *)
(***************************************************************************)
\* _attachment as it would be if the content were always fetched and sent
\* inline, whether or not the attachment has a URL of its own.
_attachment_inline(attachment) ==
    LET type == attachment.type
        base64_content == attachment.base64
        url == S(DATA_PREFIX \o type \o BASE64_SEP \o base64_content)
    IN  IF type = APPLICATION_PDF
        THEN D([type |-> S("file"),
                file |-> D([filename |-> S(attachment.id \o PDF_SUFFIX),
                            file_data |-> S(DATA_PREFIX \o APPLICATION_PDF
                                            \o BASE64_SEP \o attachment.base64)])])
        ELSE IF StartsWith(type, IMAGE_PREFIX)
        THEN D([type |-> S("image_url"), image_url |-> D([url |-> url])])
        ELSE D([type |-> S("input_audio"),
                input_audio |-> D([data |-> S(base64_content),
                                   format |-> S(IF type = AUDIO_WAV
                                                THEN "wav" ELSE "mp3")])])

_attachment(attachment) ==
    LET type == attachment.type
        fetch == ~Truthy(attachment.url) \/ StartsWith(type, AUDIO_PREFIX)
        base64_content == IF fetch THEN attachment.base64 ELSE <<>>
        url == IF fetch
               THEN S(DATA_PREFIX \o type \o BASE64_SEP \o base64_content)
               ELSE attachment.url
    IN  IF type = APPLICATION_PDF
        THEN D([type |-> S("file"),
                file |-> D([filename |-> S(attachment.id \o PDF_SUFFIX),
                            file_data |-> S(DATA_PREFIX \o APPLICATION_PDF
                                            \o BASE64_SEP \o attachment.base64)])])
        ELSE IF StartsWith(type, IMAGE_PREFIX)
        THEN D([type |-> S("image_url"), image_url |-> D([url |-> url])])
        ELSE D([type |-> S("input_audio"),
                input_audio |-> D([data |-> S(base64_content),
                                   format |-> S(IF type = AUDIO_WAV
                                                THEN "wav" ELSE "mp3")])])

(***************************************************************************)
(* redact_data (lines 939-962).  The code rewrites the structure it is     *)
(* given in place and returns that same object.  Redacted(v) is the value  *)
(* the structure holds afterwards; redact_data gives both what the         *)
(* argument holds after the call and what the call returns.                *)
(***************************************************************************)
\* Redacted as it would be if the placeholder recorded the length of the
\* URL it replaces.
RECURSIVE RedactedCounting(_)
RedactedCounting(v) ==
    IF IsDict(v)
    THEN D([key \in DOMAIN v.d |->
              LET value == v.d[key]
              IN  IF /\ key = "image_url"
                     /\ IsDict(value)
                     /\ "url" \in DOMAIN value.d
                     /\ StartsWith(value.d.url.s, DATA_PREFIX)
                  THEN D([value.d EXCEPT
                            !.url = S(REDACTED_URL \o DecimalText(Len(@.s)))])
                  ELSE IF key = "input_audio" /\ IsDict(value)
                          /\ "data" \in DOMAIN value.d
                  THEN D([value.d EXCEPT !.data = S(REDACTED_DATA)])
                  ELSE RedactedCounting(value)])
    ELSE IF IsList(v)
    THEN L([i \in DOMAIN v.items |-> RedactedCounting(v.items[i])])
    ELSE v

RECURSIVE Redacted(_)
Redacted(v) ==
    IF IsDict(v)
    THEN D([key \in DOMAIN v.d |->
              LET value == v.d[key]
              IN  IF /\ key = "image_url"
                     /\ IsDict(value)
                     /\ "url" \in DOMAIN value.d
                     /\ StartsWith(value.d.url.s, DATA_PREFIX)
                  THEN D([value.d EXCEPT !.url = S(REDACTED_URL)])
                  ELSE IF key = "input_audio" /\ IsDict(value)
                          /\ "data" \in DOMAIN value.d
                  THEN D([value.d EXCEPT !.data = S(REDACTED_DATA)])
                  ELSE Redacted(value)])
    ELSE IF IsList(v)
    THEN L([i \in DOMAIN v.items |-> Redacted(v.items[i])])
    ELSE v

\* Mutant: the rewrite is made on a deep copy.
redact_copy(input_dict) ==
    [argument |-> input_dict, returned |-> Redacted(input_dict)]

redact_data(input_dict) ==
    [argument |-> Redacted(input_dict), returned |-> Redacted(input_dict)]

(***************************************************************************)
(* _Shared.build_messages (lines 519-594).                                 *)
(* A prompt is [system, prompt, attachments, tool_results, tools]; a       *)
(* previous response is [prompt, attachments, text, tool_calls].           *)
(***************************************************************************)
ToolMessage(tool_result) ==
    D([role |-> S("tool"),
       tool_call_id |-> S(tool_result.tool_call_id),
       content |-> S(tool_result.output)])

ToolMessages(tool_results) ==
    [i \in DOMAIN tool_results |-> ToolMessage(tool_results[i])]

\* The multi-part user message: the text part first, then the attachments.
AttachmentMessage(text, attachments) ==
    LET text_part == IF Truthy(text)
                     THEN <<D([type |-> S("text"), text |-> text])>>
                     ELSE <<>>
        parts == [i \in DOMAIN attachments |-> _attachment(attachments[i])]
    IN  D([role |-> S("user"), content |-> L(text_part \o parts)])

AssistantToolCalls(tool_calls) ==
    D([role |-> S("assistant"),
       tool_calls |-> L([i \in DOMAIN tool_calls |->
            D([type |-> S("function"),
               id |-> S(tool_calls[i].tool_call_id),
               function |-> D([name |-> S(tool_calls[i].name),
                               arguments |->
                                   S(json_dumps(tool_calls[i].arguments))])])])])

\* Mutant: current_system is never updated.
HistoryStepForgetful(st, prev_response) ==
    LET system == prev_response.prompt.system
        m1 == IF Truthy(system) /\ system # st.current_system
              THEN <<D([role |-> S("system"), content |-> system])>>
              ELSE <<>>
        m2 == IF Truthy(prev_response.prompt.prompt)
              THEN <<D([role |-> S("user"), content |-> prev_response.prompt.prompt])>>
              ELSE <<>>
    IN  [messages |-> st.messages \o m1 \o m2,
         current_system |-> st.current_system]

\* One iteration of the loop over conversation.responses (lines 523-573):
\* st is [messages, current_system].
HistoryStep(st, prev_response) ==
    LET system == prev_response.prompt.system
        emit_system == Truthy(system) /\ system # st.current_system
        m1 == IF emit_system
              THEN <<D([role |-> S("system"), content |-> system])>>
              ELSE <<>>
        m2 == IF prev_response.attachments # <<>>
              THEN <<AttachmentMessage(prev_response.prompt.prompt,
                                       prev_response.attachments)>>
              ELSE IF Truthy(prev_response.prompt.prompt)
              THEN <<D([role |-> S("user"),
                        content |-> prev_response.prompt.prompt])>>
              ELSE <<>>
        m3 == ToolMessages(prev_response.prompt.tool_results)
        m4 == IF Truthy(prev_response.text)
              THEN <<D([role |-> S("assistant"), content |-> prev_response.text])>>
              ELSE <<>>
        m5 == IF prev_response.tool_calls # <<>>
              THEN <<AssistantToolCalls(prev_response.tool_calls)>>
              ELSE <<>>
    IN  [messages |-> st.messages \o m1 \o m2 \o m3 \o m4 \o m5,
         current_system |-> IF emit_system THEN system ELSE st.current_system]

RECURSIVE History(_)
History(responses) ==
    IF responses = <<>>
    THEN [messages |-> <<>>, current_system |-> None]
    ELSE HistoryStep(History(SubSeq(responses, 1, Len(responses) - 1)),
                     responses[Len(responses)])

\* build_messages as it would be if the user message were appended whenever
\* the prompt has no attachments (content: prompt.prompt or "").
build_messages_always_user(prompt, conversation) ==
    LET h == IF conversation # None
             THEN History(conversation.responses)
             ELSE [messages |-> <<>>, current_system |-> None]
        m1 == IF Truthy(prompt.system) /\ prompt.system # h.current_system
              THEN <<D([role |-> S("system"), content |-> prompt.system])>>
              ELSE <<>>
        m2 == ToolMessages(prompt.tool_results)
        m3 == IF prompt.attachments = <<>>
              THEN <<D([role |-> S("user"),
                        content |-> IF Truthy(prompt.prompt)
                                    THEN prompt.prompt ELSE S("")])>>
              ELSE <<AttachmentMessage(prompt.prompt, prompt.attachments)>>
    IN  h.messages \o m1 \o m2 \o m3

build_messages(prompt, conversation) ==
    LET h == IF conversation # None
             THEN History(conversation.responses)
             ELSE [messages |-> <<>>, current_system |-> None]
        m1 == IF Truthy(prompt.system) /\ prompt.system # h.current_system
              THEN <<D([role |-> S("system"), content |-> prompt.system])>>
              ELSE <<>>
        m2 == ToolMessages(prompt.tool_results)
        m3 == IF prompt.attachments = <<>>
              THEN IF Truthy(prompt.prompt)
                   THEN <<D([role |-> S("user"), content |-> prompt.prompt])>>
                   ELSE <<>>
              ELSE <<AttachmentMessage(prompt.prompt, prompt.attachments)>>
    IN  h.messages \o m1 \o m2 \o m3

\* Completion.execute, lines 848-853: the flattened text history.
RECURSIVE FlatHistory(_)
FlatHistory(responses) ==
    IF responses = <<>> THEN <<>>
    ELSE FlatHistory(SubSeq(responses, 1, Len(responses) - 1))
         \o <<responses[Len(responses)].prompt.prompt,
              responses[Len(responses)].text>>

completion_messages(prompt, conversation) ==
    (IF conversation # None THEN FlatHistory(conversation.responses) ELSE <<>>)
    \o <<prompt.prompt>>

(***************************************************************************)
(* Helpers imported from llm.utils (not part of this file): modelled from  *)
(* their documented effect.                                                *)
(***************************************************************************)
\* remove_dict_none_values: null-valued fields are stripped, recursively.
RECURSIVE remove_dict_none_values(_)
remove_dict_none_values(v) ==
    IF IsDict(v)
    THEN D([key \in {k \in DOMAIN v.d : v.d[k] # None} |->
              remove_dict_none_values(v.d[key])])
    ELSE IF IsList(v)
    THEN L([i \in DOMAIN v.items |-> remove_dict_none_values(v.items[i])])
    ELSE v

\* simplify_usage_dict: zero counters and empty groups are dropped.
RECURSIVE simplify_usage_dict(_)
simplify_usage_dict(v) ==
    IF IsDict(v)
    THEN LET cleaned == [key \in {k \in DOMAIN v.d :
                                    v.d[k] # I(0) /\ v.d[k] # D(Empty)} |->
                            simplify_usage_dict(v.d[key])]
         IN  D([key \in {k \in DOMAIN cleaned :
                           cleaned[k] # None /\ cleaned[k] # D(Empty)} |->
                  cleaned[key]])
    ELSE v

(***************************************************************************)
(* pydantic model_dump of the transport's objects.  A usage object is      *)
(* carried as the dict it dumps to.  A non-streamed completion is          *)
(* [id, choices, usage], a choice [message, finish_reason], a message      *)
(* [role, content, tool_calls], a tool call [id, function], a function     *)
(* [name, arguments].                                                      *)
(***************************************************************************)
usage_model_dump(usage) == usage

tool_call_model_dump(tool_call) ==
    D([id |-> tool_call.id,
       type |-> S("function"),
       function |-> D([name |-> tool_call.function.name,
                       arguments |-> tool_call.function.arguments])])

choice_model_dump(choice) ==
    D([finish_reason |-> choice.finish_reason,
       message |-> D([role |-> choice.message.role,
                      content |-> choice.message.content,
                      tool_calls |->
                          IF choice.message.tool_calls = <<>> THEN None
                          ELSE L([i \in DOMAIN choice.message.tool_calls |->
                                    tool_call_model_dump(
                                        choice.message.tool_calls[i])])])])

completion_model_dump(completion) ==
    D([id |-> completion.id,
       choices |-> L([i \in DOMAIN completion.choices |->
                        IF "message" \in DOMAIN completion.choices[i]
                        THEN choice_model_dump(completion.choices[i])
                        ELSE D([text |-> completion.choices[i].text,
                                finish_reason |->
                                    completion.choices[i].finish_reason])]),
       usage |-> IF completion.usage = None THEN None
                 ELSE usage_model_dump(completion.usage)])

(***************************************************************************)
(* combine_chunks (lines 891-936).  A streamed chunk is                    *)
(* [id, usage, choices]; a chat choice [delta, finish_reason, logprobs]    *)
(* with delta [role, content, tool_calls]; a legacy-completion choice      *)
(* [text, finish_reason, logprobs].                                        *)
(***************************************************************************)
\* Mutant: "content = ..." in place of "content += ...".
CombineChoiceOverwriting(acc, choice) ==
    IF "delta" \notin DOMAIN choice
    THEN [acc EXCEPT !.content = choice.text.s]
    ELSE [acc EXCEPT !.content = IF choice.delta.content # None
                                 THEN choice.delta.content.s ELSE @,
                     !.role = choice.delta.role]

\* The body of "for choice in item.choices" (lines 903-919);
\* acc is [content, role, finish_reason, logprobs].
CombineChoice(acc, choice) ==
    LET logprobs ==
            IF choice.logprobs # None /\ "top_logprobs" \in DOMAIN choice.logprobs
            THEN acc.logprobs \o
                 <<D([text |-> GetAttr(choice, "text"),
                      top_logprobs |-> choice.logprobs.top_logprobs])>>
            ELSE acc.logprobs
    IN  IF "delta" \notin DOMAIN choice
        THEN [acc EXCEPT !.logprobs = logprobs,
                         !.content = acc.content \o choice.text.s]
        ELSE [content |-> IF choice.delta.content # None
                          THEN acc.content \o choice.delta.content.s
                          ELSE acc.content,
              role |-> choice.delta.role,
              finish_reason |-> IF choice.finish_reason # None
                                THEN choice.finish_reason
                                ELSE acc.finish_reason,
              logprobs |-> logprobs]

RECURSIVE CombineChoices(_, _)
CombineChoices(acc, choices) ==
    IF choices = <<>> THEN acc
    ELSE CombineChoices(CombineChoice(acc, Head(choices)), Tail(choices))

\* The loop "for item in chunks" (lines 900-919); acc carries usage too.
RECURSIVE CombineItems(_, _)
CombineItems(acc, chunks) ==
    IF chunks = <<>> THEN acc
    ELSE LET item == Head(chunks)
             usage == IF Truthy(item.usage) THEN usage_model_dump(item.usage)
                      ELSE acc.usage
             inner == CombineChoices([content |-> acc.content,
                                      role |-> acc.role,
                                      finish_reason |-> acc.finish_reason,
                                      logprobs |-> acc.logprobs],
                                     item.choices)
         IN  CombineItems([content |-> inner.content,
                           role |-> inner.role,
                           finish_reason |-> inner.finish_reason,
                           logprobs |-> inner.logprobs,
                           usage |-> usage],
                          Tail(chunks))

CopiedKeys == {"id", "object", "model", "created", "index"}

combine_chunks(chunks) ==
    LET acc == CombineItems([content |-> "", role |-> None,
                             finish_reason |-> None, logprobs |-> <<>>,
                             usage |-> D(Empty)],
                            chunks)
        combined == [content |-> S(acc.content),
                     role |-> acc.role,
                     finish_reason |-> acc.finish_reason,
                     usage |-> acc.usage]
        with_logprobs == IF acc.logprobs # <<>>
                         THEN ("logprobs" :> L(acc.logprobs)) @@ combined
                         ELSE combined
        copied == IF chunks # <<>>
                  THEN [key \in {k \in CopiedKeys :
                                   GetAttr(chunks[1], k) # None} |->
                          chunks[1][key]]
                  ELSE Empty
    IN  D(copied @@ with_logprobs)

(***************************************************************************)
(* _Shared.set_usage (lines 596-604): the value response.usage holds       *)
(* after the call, given the value it held before.                         *)
(***************************************************************************)
set_usage(response_usage, usage) ==
    IF ~Truthy(usage) THEN response_usage
    ELSE LET rest == [key \in DOMAIN usage.d \ {"prompt_tokens",
                                                "completion_tokens",
                                                "total_tokens"} |->
                        usage.d[key]]
         IN  [input |-> usage.d.prompt_tokens,
              output |-> usage.d.completion_tokens,
              details |-> simplify_usage_dict(D(rest))]

(***************************************************************************)
(* The streaming loop's tool-call accumulator (lines 691-700, 777-786).    *)
(* tool_calls is the dict in insertion order: a sequence of                *)
(* [index, id, name, arguments].  A delta is [index, id, function] with    *)
(* function [name, arguments].                                             *)
(***************************************************************************)
HasIndex(tool_calls, index) ==
    \E i \in DOMAIN tool_calls : tool_calls[i].index = index

PositionOf(tool_calls, index) ==
    CHOOSE i \in DOMAIN tool_calls : tool_calls[i].index = index

\* AccumulateDelta as it would be if every delta opened an entry of its
\* own instead of being folded into the entry of its index.
AccumulateDeltaApart(tool_calls, tool_call) ==
    LET arguments == IF tool_call.function.arguments = None THEN <<>>
                     ELSE tool_call.function.arguments.s
    IN  Append(tool_calls,
               [index |-> tool_call.index,
                id |-> tool_call.id,
                name |-> tool_call.function.name,
                arguments |-> arguments \o arguments])

\* Lines 693-700 for one delta.  A delta with a new index is stored as the
\* dict's entry: the entry and the delta are then one object, and the +=
\* of line 698 appends that object's arguments to themselves.
AccumulateDelta(tool_calls, tool_call) ==
    LET arguments == IF tool_call.function.arguments = None THEN <<>>
                     ELSE tool_call.function.arguments.s
    IN  IF ~HasIndex(tool_calls, tool_call.index)
        THEN Append(tool_calls,
                    [index |-> tool_call.index,
                     id |-> tool_call.id,
                     name |-> tool_call.function.name,
                     arguments |-> arguments \o arguments])
        ELSE [tool_calls EXCEPT
                 ![PositionOf(tool_calls, tool_call.index)].arguments =
                     @ \o arguments]

RECURSIVE AccumulateDeltas(_, _)
AccumulateDeltas(tool_calls, deltas) ==
    IF deltas = <<>> THEN tool_calls
    ELSE AccumulateDeltas(AccumulateDelta(tool_calls, Head(deltas)), Tail(deltas))

\* Mutant: json.loads(arguments), without the default for an empty text.
ParseArgumentsStrict(arguments) == json_loads(arguments)

\* json.loads(arguments or "{}") (lines 716, 733, 801, 819).
ParseArguments(arguments) ==
    json_loads(IF arguments = <<>> THEN <<"{", "}">> ELSE arguments)

\* The response.add_tool_call loops (lines 709-718, 728-735, 794-803,
\* 814-821) over entries [id, name, arguments]: the calls added before the
\* first json.JSONDecodeError, and whether the loop ran to its end.
RECURSIVE AddToolCalls(_, _)
AddToolCalls(added, entries) ==
    IF entries = <<>> THEN [ok |-> TRUE, tool_calls |-> added]
    ELSE LET parsed == ParseArguments(Head(entries).arguments)
         IN  IF ~parsed.ok THEN [ok |-> FALSE, tool_calls |-> added]
             ELSE AddToolCalls(
                      Append(added, [tool_call_id |-> Head(entries).id,
                                     name |-> Head(entries).name,
                                     arguments |-> parsed.value]),
                      Tail(entries))

\* The entries of a non-streamed message's tool_calls (lines 728, 814).
MessageToolCalls(message) ==
    [i \in DOMAIN message.tool_calls |->
        [id |-> message.tool_calls[i].id,
         name |-> message.tool_calls[i].function.name,
         arguments |-> IF message.tool_calls[i].function.arguments = None
                       THEN <<>>
                       ELSE message.tool_calls[i].function.arguments.s]]

\* "\n".join(messages) (lines 859, 878): TypeError on a None item.
CanJoin(messages) == \A i \in DOMAIN messages : messages[i] # None

RECURSIVE Join(_)
Join(messages) ==
    IF messages = <<>> THEN ""
    ELSE IF Len(messages) = 1 THEN messages[1].s
    ELSE messages[1].s \o "\n" \o Join(Tail(messages))

(***************************************************************************)
(* Bounds and input alphabets.                                             *)
(***************************************************************************)
\* The longest streamed response, in fragments.
MaxChunks == 4
\* The longest conversation history, in turns.
MaxTurns == 3

HTTPS_URL == <<"h", "t", "t", "p", "s", ":", "/", "/", "x">>
PAYLOAD == <<"A", "A", "A", "A">>

Image == [type |-> IMAGE_PNG, url |-> None, base64 |-> PAYLOAD, id |-> <<"a", "1">>]
LinkedImage ==
    [type |-> IMAGE_PNG, url |-> S(HTTPS_URL), base64 |-> PAYLOAD, id |-> <<"a", "2">>]
Audio == [type |-> AUDIO_WAV, url |-> S(HTTPS_URL), base64 |-> PAYLOAD, id |-> <<"a", "3">>]
Pdf == [type |-> APPLICATION_PDF, url |-> None, base64 |-> PAYLOAD, id |-> <<"a", "4">>]

ToolResult1 == [tool_call_id |-> "call_0", output |-> "sunny"]
Tool1 == [name |-> "get_weather", description |-> None, input_schema |-> D(Empty)]

NewPrompt(system, text, attachments, tool_results, tools) ==
    [system |-> system, prompt |-> text, attachments |-> attachments,
     tool_results |-> tool_results, tools |-> tools]

TextPrompt == NewPrompt(None, S("hi"), <<>>, <<>>, <<>>)
SystemPrompt == NewPrompt(S("A"), S("hi"), <<>>, <<>>, <<>>)
MediaPrompt == NewPrompt(None, S("look"), <<Image, LinkedImage, Audio>>, <<>>, <<>>)
ToolPrompt == NewPrompt(None, None, <<>>, <<ToolResult1>>, <<Tool1>>)

\* A finished turn of the history.
NewTurn(system, text, attachments, tool_results, answer, tool_calls) ==
    [prompt |-> [system |-> system, prompt |-> text, tool_results |-> tool_results],
     attachments |-> attachments, text |-> answer, tool_calls |-> tool_calls]

PastCall == [tool_call_id |-> "call_0", name |-> "get_weather", arguments |-> D(Empty)]

Turns ==
    { NewTurn(sys, S("q"), <<>>, <<>>, S("a"), <<>>) : sys \in {None, S("A"), S("B")} }
    \cup { NewTurn(S("A"), S("q"), <<Image>>, <<>>, S(""), <<PastCall>>),
           NewTurn(None, None, <<>>, <<ToolResult1>>, S("a"), <<>>) }

Conversation(responses) == [responses |-> responses]

Histories(n) == UNION { [1..k -> Turns] : k \in 0..n }

\* Usage snapshots of the remote endpoint.
Usage572 ==
    D([prompt_tokens |-> I(5), completion_tokens |-> I(2), total_tokens |-> I(7)])
UsageDetailed ==
    D([prompt_tokens |-> I(3), completion_tokens |-> I(1), total_tokens |-> I(4),
       completion_tokens_details |-> D([reasoning_tokens |-> I(0)]),
       prompt_tokens_details |-> D([cached_tokens |-> I(2)])])

\* Streamed chat fragments.
Delta(role, content, tool_calls) ==
    [role |-> role, content |-> content, tool_calls |-> tool_calls]

ChatChoice(delta, finish_reason) ==
    [delta |-> delta, finish_reason |-> finish_reason, logprobs |-> None]

ChatChunk(choices, usage) ==
    [id |-> S("chatcmpl-1"), usage |-> usage, choices |-> choices]

ContentChunk(text) ==
    ChatChunk(<<ChatChoice(Delta(S("assistant"), S(text), <<>>), None)>>, None)

StopChunk == ChatChunk(<<ChatChoice(Delta(None, None, <<>>), S("stop"))>>, None)
UsageChunk == ChatChunk(<<>>, Usage572)
TwoChoiceChunk ==
    ChatChunk(<<ChatChoice(Delta(S("assistant"), S("Hel"), <<>>), None),
                ChatChoice(Delta(S("assistant"), S("lo"), <<>>), None)>>, None)

TextChunks ==
    { ContentChunk(text) : text \in {"Hel", "lo", ""} }
    \cup {StopChunk, UsageChunk, TwoChoiceChunk}

\* Tool-call deltas: the first delta of an index names the call, the later
\* ones carry only argument text.
ArgumentFragments == {None, S(<<"{">>), S(<<"}">>), S(<<"1">>)}

ToolDelta(index, arguments) ==
    [index |-> index,
     id |-> S(IF index = 0 THEN "call_0" ELSE "call_1"),
     function |-> [name |-> S("get_weather"), arguments |-> arguments]]

ToolChunk(deltas) ==
    ChatChunk(<<ChatChoice(Delta(None, None, deltas), None)>>, None)

ToolChunks ==
    { ToolChunk(<<ToolDelta(index, arguments)>>) :
        index \in {0, 1}, arguments \in ArgumentFragments }
    \cup { ToolChunk(<<ToolDelta(0, S(<<"{">>)), ToolDelta(1, S(<<"1">>))>>) }

\* What a stream that carries tool calls delivers: tool-call deltas, and
\* text in between.
ToolStreamChunks == ToolChunks \cup {ContentChunk("Hel")}

\* Streamed legacy-completion fragments.
TextChoice(text) == [text |-> S(text), finish_reason |-> None, logprobs |-> None]

CompletionChunk(choices) == [id |-> S("cmpl-1"), usage |-> None, choices |-> choices]

CompletionChunks ==
    { CompletionChunk(<<TextChoice(text)>>) : text \in {"Hel", "lo", ""} }
    \cup { CompletionChunk(<<>>),
           CompletionChunk(<<TextChoice("Hel"), TextChoice("lo")>>) }

\* Non-streamed payloads.
MessageToolCall(index, arguments) ==
    [id |-> S(IF index = 0 THEN "call_0" ELSE "call_1"),
     function |-> [name |-> S("get_weather"), arguments |-> arguments]]

ChatCompletion(content, tool_calls, usage) ==
    [id |-> S("chatcmpl-1"),
     choices |-> <<[message |-> [role |-> S("assistant"), content |-> content,
                                 tool_calls |-> tool_calls],
                    finish_reason |-> S("stop")]>>,
     usage |-> usage]

ChatCompletions(tools) ==
    { ChatCompletion(content, tool_calls, usage) :
        content \in {None, S("Hello")},
        tool_calls \in
            IF tools = <<>> THEN {<<>>}
            ELSE {<<>>}
                 \cup { <<MessageToolCall(0, arguments)>> :
                          arguments \in {None, S(<<>>), S(<<"{", "}">>), S(<<"{">>)} }
                 \cup { <<MessageToolCall(0, S(<<"1">>)), MessageToolCall(1, S(<<"}">>))>> },
        usage \in {None, Usage572, UsageDetailed} }

TextCompletions ==
    { [id |-> S("cmpl-1"),
       choices |-> <<[text |-> S(text), finish_reason |-> S("stop")]>>,
       usage |-> Usage572] : text \in {"Hello", ""} }

\* What the remote endpoint may deliver next for this call.
Fragments(m, p, streaming) ==
    IF streaming
    THEN IF m = "Completion" THEN CompletionChunks
         ELSE IF p.tools # <<>> THEN ToolStreamChunks
         ELSE TextChunks
    ELSE IF m = "Completion" THEN TextCompletions
         ELSE ChatCompletions(p.tools)

(***************************************************************************)
(* The executor: one call of Chat.execute, AsyncChat.execute or            *)
(* Completion.execute, driven by its caller (a generator runs only while   *)
(* the caller asks for the next text) and by the transport.                *)
(***************************************************************************)
VARIABLES
    model,                \* "Chat", "AsyncChat" or "Completion": the executor
    allows_system_prompt, \* self.allows_system_prompt
    prompt,               \* the current prompt
    conversation,         \* None or [responses]
    stream,               \* the stream argument
    remaining,            \* fragments the remote endpoint has yet to deliver
    completion,           \* the non-streamed payload create() returned, or None
    pc,                   \* where the generator stands
    messages,             \* the local list "messages"
    requests,             \* the request bodies the transport was given
    chunks,               \* the local list "chunks"
    tool_calls,           \* the local dict "tool_calls"
    usage,                \* the local "usage"
    emitted,              \* the texts yielded to the caller so far
    response,             \* the ResponseRecord the call populates
    error,                \* the exception the call ended with, or "none"
    stream_state          \* the transport stream: none, open, exhausted,
                          \* broken, released

vars == <<model, allows_system_prompt, prompt, conversation, stream, remaining,
          completion, pc, messages, requests, chunks, tool_calls, usage, emitted, response,
          error, stream_state>>

inputs == <<model, allows_system_prompt, prompt, conversation, stream>>

\* The record before the call: nothing attached.
NewResponse ==
    [response_json |-> None, usage |-> None, tool_calls |-> <<>>,
     prompt_json |-> None]

Models == {"Chat", "AsyncChat", "Completion"}

InitWith(ms, prompts, conversations, streams, lengths) ==
    /\ model \in ms
    /\ allows_system_prompt \in BOOLEAN
    /\ prompt \in prompts
    /\ conversation \in conversations
    /\ stream \in streams
    /\ remaining \in IF stream THEN lengths ELSE {1}
    /\ completion = None
    /\ pc = "idle"
    /\ messages = <<>>
    /\ requests = <<>>
    /\ chunks = <<>>
    /\ tool_calls = <<>>
    /\ usage = None
    /\ emitted = <<>>
    /\ response = NewResponse
    /\ error = "none"
    /\ stream_state = "none"

Raise(exception) ==
    /\ pc' = "failed"
    /\ error' = exception

\* Execute as it would be if Completion relied on the capability flag that
\* Chat consults instead of refusing every system text itself.
ExecuteTrustingCapability ==
    /\ pc = "idle"
    /\ IF Truthy(prompt.system) /\ ~allows_system_prompt
       THEN /\ Raise("NotImplementedError")
            /\ UNCHANGED messages
       ELSE /\ messages' = IF model = "Completion"
                           THEN completion_messages(prompt, conversation)
                           ELSE build_messages(prompt, conversation)
            /\ pc' = "sending"
            /\ UNCHANGED error
    /\ UNCHANGED <<inputs, completion, remaining, requests, chunks, tool_calls, usage,
                   emitted, response, stream_state>>

\* Lines 672-677, 756-761, 844-855: the capability check and the request
\* that is about to be issued.
Execute ==
    /\ pc = "idle"
    /\ IF Truthy(prompt.system) /\ (model = "Completion" \/ ~allows_system_prompt)
       THEN /\ Raise("NotImplementedError")
            /\ UNCHANGED messages
       ELSE /\ messages' = IF model = "Completion"
                           THEN completion_messages(prompt, conversation)
                           ELSE build_messages(prompt, conversation)
            /\ pc' = "sending"
            /\ UNCHANGED error
    /\ UNCHANGED <<inputs, completion, remaining, requests, chunks, tool_calls, usage,
                   emitted, response, stream_state>>

\* The body handed to ...completions.create (lines 679-684, 857-862 ...).
RequestBody ==
    IF model = "Completion" THEN S(Join(messages)) ELSE L(messages)

\* "\n".join(messages) of the legacy variant raises on a prompt without text.
JoinFails ==
    /\ pc = "sending"
    /\ model = "Completion"
    /\ ~CanJoin(messages)
    /\ Raise("TypeError")
    /\ UNCHANGED <<inputs, completion, remaining, messages, requests, chunks, tool_calls,
                   usage, emitted, response, stream_state>>

CanSend == pc = "sending" /\ (model = "Completion" => CanJoin(messages))

\* create(stream=True) returns the stream (lines 679-686, 763-770, 857-863).
OpenStream ==
    /\ CanSend
    /\ stream
    /\ requests' = Append(requests, RequestBody)
    /\ pc' = "streaming"
    /\ stream_state' = "open"
    /\ UNCHANGED <<inputs, completion, remaining, messages, chunks, tool_calls, usage,
                   emitted, response, error>>

\* Mutant: a failure in mid-stream is caught and what was received so far
\* is stored before the error goes on.
TransportFailsSalvaging ==
    /\ \/ CanSend /\ requests' = Append(requests, RequestBody)
       \/ pc = "streaming" /\ UNCHANGED requests
    /\ Raise("TransportFailure")
    /\ stream_state' = IF stream_state = "open" THEN "broken" ELSE stream_state
    /\ response' =
          IF pc = "streaming"
          THEN [response EXCEPT
                   !.response_json = remove_dict_none_values(combine_chunks(chunks))]
          ELSE response
    /\ UNCHANGED <<inputs, completion, remaining, messages, chunks, tool_calls,
                   usage, emitted>>

\* The transport raises: when the request is issued, or while the next
\* fragment is awaited.  Nothing in execute catches it.
TransportFails ==
    /\ \/ CanSend /\ requests' = Append(requests, RequestBody)
       \/ pc = "streaming" /\ UNCHANGED requests
    /\ Raise("TransportFailure")
    /\ stream_state' = IF stream_state = "open" THEN "broken" ELSE stream_state
    /\ UNCHANGED <<inputs, completion, remaining, messages, chunks, tool_calls, usage,
                   emitted, response>>

\* Lines 738-739, 824-825 (and 884 for the legacy variant, which records no
\* usage): redact_data is given a dict wrapping the live list "messages",
\* so what it rewrites is that list.
Finish(record, local_usage) ==
    LET redacted == redact_data(D([messages |-> L(messages)]))
    IN  /\ response' =
              [record EXCEPT
                  !.usage = IF model = "Completion" THEN @
                            ELSE set_usage(@, local_usage),
                  !.prompt_json = redacted.returned]
        /\ messages' = redacted.argument.d.messages.items
        /\ pc' = "done"
        /\ UNCHANGED error

\* Mutant: an empty text is treated as no text ("if content:").
FragmentTextIfTruthy(chunk) ==
    IF chunk.choices = <<>> THEN None
    ELSE LET text == IF model = "Completion" THEN chunk.choices[1].text
                     ELSE chunk.choices[1].delta.content
         IN  IF Truthy(text) THEN text ELSE None

\* The text of a streamed fragment (lines 701-704, 787-790, 866-869):
\* IndexError on a fragment without choices gives None.
FragmentText(chunk) ==
    IF chunk.choices = <<>> THEN None
    ELSE IF model = "Completion" THEN chunk.choices[1].text
    ELSE chunk.choices[1].delta.content

\* One iteration of the loop over the stream, up to its yield
\* (lines 687-706, 771-792, 864-871).
StreamChunk ==
    /\ pc = "streaming"
    /\ remaining > 0
    /\ \E chunk \in Fragments(model, prompt, TRUE) :
        /\ chunks' = Append(chunks, chunk)
        /\ usage' = IF model # "Completion" /\ Truthy(chunk.usage)
                    THEN usage_model_dump(chunk.usage)
                    ELSE usage
        /\ tool_calls' =
              IF model # "Completion" /\ chunk.choices # <<>>
              THEN AccumulateDeltas(tool_calls, chunk.choices[1].delta.tool_calls)
              ELSE tool_calls
        /\ IF FragmentText(chunk) # None
           THEN /\ emitted' = Append(emitted, FragmentText(chunk).s)
                /\ pc' = "yielded"
           ELSE /\ pc' = "streaming"
                /\ UNCHANGED emitted
    /\ remaining' = remaining - 1
    /\ UNCHANGED <<inputs, completion, messages, requests, response, error, stream_state>>

\* The accumulated entries, in the dict's order (lines 709, 794).
Accumulated ==
    [i \in DOMAIN tool_calls |->
        [id |-> tool_calls[i].id, name |-> tool_calls[i].name,
         arguments |-> tool_calls[i].arguments]]

\* The stream is exhausted: lines 707-718 and 738-739 (Chat), 793-804 and
\* 824-825 (AsyncChat, which parses the tool calls before it stores
\* response_json), 872-874 and 884 (Completion).
EndOfStream ==
    /\ pc = "streaming"
    /\ remaining = 0
    /\ stream_state' = "exhausted"
    /\ LET response_json == remove_dict_none_values(combine_chunks(chunks))
           added == AddToolCalls(<<>>, Accumulated)
       IN  CASE model = "Completion" ->
                  Finish([response EXCEPT !.response_json = response_json], usage)
             [] model = "Chat" ->
                  IF added.ok
                  THEN Finish([response EXCEPT !.response_json = response_json,
                                               !.tool_calls = added.tool_calls],
                              usage)
                  ELSE /\ response' = [response EXCEPT
                                          !.response_json = response_json,
                                          !.tool_calls = added.tool_calls]
                       /\ Raise("JSONDecodeError")
                       /\ UNCHANGED messages
             [] model = "AsyncChat" ->
                  IF added.ok
                  THEN Finish([response EXCEPT !.response_json = response_json,
                                               !.tool_calls = added.tool_calls],
                              usage)
                  ELSE /\ response' = [response EXCEPT
                                          !.tool_calls = added.tool_calls]
                       /\ Raise("JSONDecodeError")
                       /\ UNCHANGED messages
    /\ UNCHANGED <<inputs, completion, remaining, requests, chunks, tool_calls, usage, emitted>>

\* create(stream=False) has returned the payload: lines 726-737 (Chat),
\* 812-823 (AsyncChat, which stores response_json before it reads the
\* usage), 882-883 (Completion).  payload.usage.model_dump() raises
\* AttributeError when the payload has no usage.
ReceivedCompletion(payload) ==
    LET response_json == remove_dict_none_values(completion_model_dump(payload))
        stored == [response EXCEPT !.response_json = response_json]
    IN  IF model = "Completion"
        THEN /\ response' = stored
             /\ emitted' = Append(emitted, payload.choices[1].text.s)
             /\ pc' = "yielded"
             /\ UNCHANGED <<usage, messages, error>>
        ELSE IF payload.usage = None
        THEN /\ response' = IF model = "Chat" THEN response ELSE stored
             /\ Raise("AttributeError")
             /\ UNCHANGED <<usage, messages, emitted>>
        ELSE LET added == AddToolCalls(<<>>,
                              MessageToolCalls(payload.choices[1].message))
                 content == payload.choices[1].message.content
                 record == [stored EXCEPT !.tool_calls = added.tool_calls]
             IN  /\ usage' = usage_model_dump(payload.usage)
                 /\ IF ~added.ok
                    THEN /\ response' = record
                         /\ Raise("JSONDecodeError")
                         /\ UNCHANGED <<messages, emitted>>
                    ELSE IF content # None
                    THEN /\ response' = record
                         /\ emitted' = Append(emitted, content.s)
                         /\ pc' = "yielded"
                         /\ UNCHANGED <<messages, error>>
                    ELSE /\ Finish(record, usage_model_dump(payload.usage))
                         /\ UNCHANGED emitted

\* The blocking create(stream=False) call (lines 720-725, 806-811, 876-881)
\* and what follows it up to the yield.
ReceiveCompletion ==
    /\ CanSend
    /\ ~stream
    /\ requests' = Append(requests, RequestBody)
    /\ remaining' = 0
    /\ \E payload \in Fragments(model, prompt, FALSE) :
        /\ completion' = payload
        /\ ReceivedCompletion(payload)
    /\ UNCHANGED <<inputs, chunks, tool_calls, stream_state>>

\* The caller asks for the next text: the generator goes on after its yield.
Resume ==
    /\ pc = "yielded"
    /\ IF stream
       THEN /\ pc' = "streaming"
            /\ UNCHANGED <<messages, response, error>>
       ELSE Finish(response, usage)
    /\ UNCHANGED <<inputs, completion, remaining, requests, chunks, tool_calls, usage,
                   emitted, stream_state>>

\* Mutant: the request is persisted in a "finally" around the loop, which
\* also runs when the generator is closed.
AbandonWithFinally ==
    /\ pc = "yielded"
    /\ pc' = "abandoned"
    /\ response' = [response EXCEPT
                       !.prompt_json =
                           redact_data(D([messages |-> L(messages)])).returned]
    /\ UNCHANGED <<inputs, completion, remaining, messages, requests, chunks,
                   tool_calls, usage, emitted, error, stream_state>>

\* The caller closes (or drops) the generator at a yield: GeneratorExit is
\* raised there and no later line of execute runs.
Abandon ==
    /\ pc = "yielded"
    /\ pc' = "abandoned"
    /\ UNCHANGED <<inputs, completion, remaining, messages, requests, chunks, tool_calls,
                   usage, emitted, response, error, stream_state>>

\* execute has no close(), no "with" and no "finally" for the stream it
\* opened (lines 679-706): after an abandonment the stream is released only
\* if and when the runtime finalizes the dropped objects, which nothing in
\* this code brings about.
RuntimeFinalizesStream ==
    /\ pc = "abandoned"
    /\ stream_state = "open"
    /\ stream_state' = "released"
    /\ UNCHANGED <<inputs, completion, remaining, pc, messages, requests, chunks, tool_calls,
                   usage, emitted, response, error>>

Next ==
    \/ Execute
    \/ JoinFails
    \/ OpenStream
    \/ TransportFails
    \/ StreamChunk
    \/ EndOfStream
    \/ ReceiveCompletion
    \/ Resume
    \/ Abandon
    \/ RuntimeFinalizesStream

\* The calls the executor claims are checked on: the three executors, both
\* modes, prompts with and without system text, media and tools.
Init ==
    InitWith(Models, {TextPrompt, SystemPrompt, MediaPrompt, ToolPrompt},
             {None}, BOOLEAN, 0..MaxChunks)

Spec == Init /\ [][Next]_vars

\* The calls the message-builder claims are checked on: every history of
\* up to MaxTurns turns, short responses.
SystemPromptB == NewPrompt(S("B"), S("hi"), <<>>, <<>>, <<>>)

InitBuild ==
    InitWith(Models, {TextPrompt, SystemPrompt, SystemPromptB},
             {None} \cup { Conversation(h) : h \in Histories(MaxTurns) },
             BOOLEAN, {0, 1})

SpecBuild == InitBuild /\ [][Next]_vars

\* The steps the generator, its caller and the transport take.  The
\* runtime's finalization of a dropped stream is not among them: nothing
\* schedules it.
CallStep ==
    \/ Execute
    \/ JoinFails
    \/ OpenStream
    \/ TransportFails
    \/ StreamChunk
    \/ EndOfStream
    \/ ReceiveCompletion
    \/ Resume
    \/ Abandon

FairSpec == Spec /\ WF_vars(CallStep)

(***************************************************************************)
(* Claims.                                                                 *)
(***************************************************************************)
IsChat == model # "Completion"

\* The argument fragments delivered for one index, concatenated in arrival
\* order, an absent fragment counting as the empty text.
RECURSIVE ArgumentsIn(_, _)
ArgumentsIn(deltas, index) ==
    IF deltas = <<>> THEN <<>>
    ELSE (IF Head(deltas).index = index /\ Head(deltas).function.arguments # None
          THEN Head(deltas).function.arguments.s
          ELSE <<>>)
         \o ArgumentsIn(Tail(deltas), index)

RECURSIVE DeliveredArguments(_, _)
DeliveredArguments(delivered, index) ==
    IF delivered = <<>> THEN <<>>
    ELSE (IF Head(delivered).choices = <<>> THEN <<>>
          ELSE ArgumentsIn(Head(delivered).choices[1].delta.tool_calls, index))
         \o DeliveredArguments(Tail(delivered), index)

\* C1: in streaming mode, for every tool-call index, the argument text that
\* is JSON-parsed at finalization is the concatenation, in arrival order, of
\* the fragments delivered for that index, each counted exactly once.
C1_ArgumentsAreTheConcatenation ==
    (IsChat /\ stream /\ stream_state = "exhausted") =>
        \A i \in DOMAIN tool_calls :
            tool_calls[i].arguments =
                DeliveredArguments(chunks, tool_calls[i].index)

\* The tool calls finalization parses, as [id, name, arguments].
ParsedEntries ==
    IF stream THEN Accumulated
    ELSE IF completion # None
    THEN MessageToolCalls(completion.choices[1].message)
    ELSE <<>>

\* Finalization has come to the tool calls.
ToolCallsFinalized ==
    /\ IsChat
    /\ \/ stream /\ stream_state = "exhausted"
       \/ ~stream /\ completion # None /\ completion.usage # None

Unparseable(arguments) == ~json_loads(arguments).ok

\* C2 as stated: at finalization a tool call whose argument text cannot be
\* parsed as JSON is finalized with an empty object and the call does not
\* fail.
C2_UnparseableArgumentsNeverFail ==
    ToolCallsFinalized =>
        /\ error = "none"
        /\ \A i \in DOMAIN ParsedEntries :
              Unparseable(ParsedEntries[i].arguments) =>
                  /\ i \in DOMAIN response.tool_calls
                  /\ response.tool_calls[i].arguments = D(Empty)

\* C2 amended: an empty or absent argument text is finalized as the empty
\* object; every other text is finalized as json.loads parses it; a
\* non-empty text that is not valid JSON makes the call fail with
\* JSONDecodeError, with the tool calls before it attached and neither the
\* usage nor the redacted request.
C2_OnlyEmptyArgumentsDefault ==
    IsChat =>
        /\ Len(response.tool_calls) <= Len(ParsedEntries)
        /\ \A i \in DOMAIN response.tool_calls :
              IF ParsedEntries[i].arguments = <<>>
              THEN response.tool_calls[i].arguments = D(Empty)
              ELSE json_loads(ParsedEntries[i].arguments) =
                       [ok |-> TRUE, value |-> response.tool_calls[i].arguments]
        /\ (error = "JSONDecodeError") <=>
              /\ ToolCallsFinalized
              /\ \E i \in DOMAIN ParsedEntries :
                    /\ ParsedEntries[i].arguments # <<>>
                    /\ Unparseable(ParsedEntries[i].arguments)
        /\ error = "JSONDecodeError" =>
              /\ pc = "failed"
              /\ response.usage = None
              /\ response.prompt_json = None
              /\ (response.response_json = None) <=> (model = "AsyncChat" /\ stream)
              /\ Len(response.tool_calls) < Len(ParsedEntries)
              /\ Unparseable(ParsedEntries[Len(response.tool_calls) + 1].arguments)
        /\ pc = "done" => Len(response.tool_calls) = Len(ParsedEntries)

C2_Witness ==
    /\ IsChat
    /\ pc = "done"
    /\ \E i \in DOMAIN response.tool_calls :
          /\ ParsedEntries[i].arguments = <<>>
          /\ response.tool_calls[i].arguments = D(Empty)

\* C3: once the caller has abandoned the text sequence of a streamed call,
\* no field of the ResponseRecord is ever set.
C3_AbandonedCallLeavesNoRecord ==
    (stream /\ pc = "abandoned") => response = NewResponse

C3_Witness ==
    /\ IsChat
    /\ stream
    /\ pc = "abandoned"
    /\ remaining > 0
    /\ Len(chunks) > 1
    /\ stream_state = "released"

\* C4: from every state where the stream is open and the caller has
\* abandoned the text sequence, the stream is eventually released.
C4_AbandonedStreamIsReleased ==
    (pc = "abandoned" /\ stream_state = "open") ~> (stream_state = "released")

\* C5: a transport failure ends the call as failed, with one request made
\* and none after it, and with no field of the ResponseRecord set.
C5_TransportFailureLeavesNoRecord ==
    error = "TransportFailure" =>
        /\ pc = "failed"
        /\ Len(requests) = 1
        /\ response = NewResponse
        /\ ~ENABLED Next

C5_Witness ==
    /\ IsChat
    /\ stream
    /\ error = "TransportFailure"
    /\ emitted # <<>>
    /\ Len(chunks) > 1

\* A structure that still holds a base64 data URL or audio data.
RECURSIVE HoldsRawMedia(_)
HoldsRawMedia(v) ==
    IF IsDict(v)
    THEN \E key \in DOMAIN v.d :
            LET value == v.d[key]
            IN  \/ /\ key = "image_url"
                   /\ IsDict(value)
                   /\ "url" \in DOMAIN value.d
                   /\ StartsWith(value.d.url.s, DATA_PREFIX)
                   /\ value.d.url.s # REDACTED_URL
                \/ /\ key = "input_audio"
                   /\ IsDict(value)
                   /\ "data" \in DOMAIN value.d
                   /\ value.d.data.s # REDACTED_DATA
                \/ HoldsRawMedia(value)
    ELSE IF IsList(v)
    THEN \E i \in DOMAIN v.items : HoldsRawMedia(v.items[i])
    ELSE FALSE

\* C6 as stated: after a completed call the message list that was built and
\* passed to the transport still holds what it held then, while the
\* persisted copy holds the placeholders.
C6_RedactionLeavesMessagesAlone ==
    (IsChat /\ pc = "done") =>
        /\ requests = <<L(messages)>>
        /\ ~HoldsRawMedia(response.prompt_json)

\* C6 amended: redact_data rewrites the structure it is given and returns
\* it, so after a completed call the persisted copy is the live message
\* list and both hold the placeholders; the request the transport was given
\* before that held the messages as they were built.
C6_RedactionRewritesMessagesInPlace ==
    pc = "done" =>
        /\ response.prompt_json = D([messages |-> L(messages)])
        /\ ~HoldsRawMedia(response.prompt_json)
        /\ IsChat => requests = <<L(build_messages(prompt, conversation))>>

C6_Witness ==
    /\ IsChat
    /\ pc = "done"
    /\ HoldsRawMedia(requests[1])
    /\ ~HoldsRawMedia(L(messages))

NoUsageDelivered == \A i \in DOMAIN chunks : chunks[i].usage = None

\* C7: without a usage snapshot the call completes normally and the
\* record's usage stays unset, streamed or not.
C7_AbsentUsageIsANoOp ==
    /\ (IsChat /\ ~stream /\ completion # None /\ completion.usage = None) =>
          (error = "none" /\ response.usage = None)
    /\ (IsChat /\ stream /\ stream_state = "exhausted" /\ NoUsageDelivered
          /\ error # "JSONDecodeError") =>
          (pc = "done" /\ response.usage = None)

Scenario ==
    <<ContentChunk("Hel"), ContentChunk("lo"), ContentChunk(""), UsageChunk>>

ScenarioResult ==
    /\ response.response_json.d.content = S("Hello")
    /\ response.usage = [input |-> I(5), output |-> I(2), details |-> D(Empty)]

\* C8 as stated: the scenario's stream yields the texts "Hel", "lo".
C8_ScenarioYieldsTwoTexts ==
    (IsChat /\ pc = "done" /\ chunks = Scenario) =>
        (emitted = <<"Hel", "lo">> /\ ScenarioResult)

\* C8 amended: the scenario's stream yields the texts "Hel", "lo", "" (only
\* a null delta is skipped), final content "Hello" and usage
\* {input_tokens: 5, output_tokens: 2, details: {}}.
C8_ScenarioYieldsEveryDelta ==
    (IsChat /\ pc = "done" /\ chunks = Scenario) =>
        (emitted = <<"Hel", "lo", "">> /\ ScenarioResult)

C8_Witness == IsChat /\ pc = "done" /\ chunks = Scenario

\* The non-null delta/text fragments of all choices of all chunks,
\* concatenated in arrival order.
ChoiceFragment(choice) ==
    IF "delta" \in DOMAIN choice THEN choice.delta.content ELSE choice.text

RECURSIVE ChoicesText(_)
ChoicesText(choices) ==
    IF choices = <<>> THEN ""
    ELSE ChoicesText(SubSeq(choices, 1, Len(choices) - 1))
         \o (IF ChoiceFragment(choices[Len(choices)]) = None THEN ""
             ELSE ChoiceFragment(choices[Len(choices)]).s)

RECURSIVE ChunksText(_)
ChunksText(delivered) ==
    IF delivered = <<>> THEN ""
    ELSE ChunksText(SubSeq(delivered, 1, Len(delivered) - 1))
         \o ChoicesText(delivered[Len(delivered)].choices)

\* C9: folding any streamed chunk sequence through combine_chunks gives a
\* content equal to the concatenation, in arrival order, of every non-null
\* fragment of all chunks.
C9_ContentIsTheConcatenation ==
    stream =>
        /\ combine_chunks(chunks).d.content = S(ChunksText(chunks))
        /\ pc = "done" =>
              response.response_json.d.content = S(ChunksText(chunks))

C9_Witness ==
    /\ stream
    /\ pc = "done"
    /\ Len(chunks) > 2
    /\ \E i, j, k \in DOMAIN chunks :
          /\ chunks[i] = TwoChoiceChunk
          /\ chunks[j] = StopChunk
          /\ chunks[k] = ContentChunk("lo")

\* The texts of the system messages of a message list, in order.
SystemTexts(list) ==
    LET system == SelectSeq(list, LAMBDA m : m.d.role = S("system"))
    IN  [i \in DOMAIN system |-> system[i].d.content]

\* C10: in the message list build_messages gives, two successive system
\* messages never carry the same text.
C10_NoRepeatedSystemMessage ==
    (IsChat /\ pc # "idle" /\ error # "NotImplementedError") =>
        \A i \in 1..(Len(SystemTexts(messages)) - 1) :
            SystemTexts(messages)[i] # SystemTexts(messages)[i + 1]

C10_Witness ==
    /\ IsChat
    /\ pc = "sending"
    /\ conversation # None
    /\ Len(conversation.responses) > 1
    /\ \A i \in DOMAIN conversation.responses :
          conversation.responses[i].prompt.system = S("A")
    /\ prompt.system = S("A")
    /\ Len(SystemTexts(messages)) = 1

\* ---------------------------------------------------------------------
\* C11: a call whose prompt carries system text fails with the
\* unsupported-feature error when the model does not allow a system prompt,
\* and always when the model is Completion; it fails before any transport
\* request is issued, before any text is emitted, and with no field of the
\* record set.  No other call fails with that error.
SystemRefused ==
    Truthy(prompt.system) /\ (model = "Completion" \/ ~allows_system_prompt)

C11_SystemTextIsRefusedFirst ==
    /\ SystemRefused =>
          /\ pc \in {"idle", "failed"}
          /\ pc = "failed" => error = "NotImplementedError"
          /\ requests = <<>>
          /\ emitted = <<>>
          /\ chunks = <<>>
          /\ completion = None
          /\ stream_state = "none"
          /\ response = NewResponse
    /\ error = "NotImplementedError" => SystemRefused

C11_Witness ==
    /\ model = "Completion"
    /\ allows_system_prompt
    /\ prompt = SystemPrompt
    /\ pc = "failed"
    /\ error = "NotImplementedError"

(***************************************************************************)
(* redact_data on its own (lines 939-962): the function applied, and       *)
(* applied again, to a dict wrapping a list that holds one nested          *)
(* structure of dicts, lists and strings.  The value under "url" is a      *)
(* string, as startswith on line 952 requires.                             *)
(***************************************************************************)
\* The deepest nesting of the structures, counted above the media dicts.
MaxDepth == 2

DATA_URL == DATA_PREFIX \o IMAGE_PNG \o BASE64_SEP \o PAYLOAD

Texts == {S(DATA_URL), S(HTTPS_URL), S(REDACTED_URL), S(PAYLOAD), S(REDACTED_DATA)}

\* The dicts lines 948-956 look into: "url" and "data" entries, alone,
\* together, and beside a nested part.
Media ==
    {D([url |-> t]) : t \in Texts}
      \cup {D([data |-> t]) : t \in Texts}
      \cup {D([url |-> t, data |-> u]) : t \in Texts, u \in Texts}
      \cup {D([url |-> t, input_audio |-> D([data |-> S(PAYLOAD)])]) : t \in Texts}

RECURSIVE Structures(_)
Structures(depth) ==
    IF depth = 0 THEN Texts \cup Media
    ELSE LET inner == Structures(depth - 1)
         IN  inner
               \cup {D([image_url |-> v]) : v \in inner}
               \cup {D([input_audio |-> v]) : v \in inner}
               \cup {D([content |-> v]) : v \in inner}
               \cup {L(<<v>>) : v \in inner}
               \cup {L(<<D([image_url |-> v]), D([input_audio |-> v])>>) : v \in Media}

InitRedact ==
    /\ model = "Chat"
    /\ allows_system_prompt = TRUE
    /\ prompt = TextPrompt
    /\ conversation = None
    /\ stream = FALSE
    /\ remaining = 1
    /\ completion = None
    /\ pc = "redacting"
    /\ messages \in {<<x>> : x \in Structures(MaxDepth)}
    /\ requests = <<L(messages)>>
    /\ chunks = <<>>
    /\ tool_calls = <<>>
    /\ usage = None
    /\ emitted = <<>>
    /\ response = NewResponse
    /\ error = "none"
    /\ stream_state = "none"

\* Line 739: response._prompt_json = redact_data({"messages": messages}).
Redact(before, after) ==
    LET redacted == redact_data(D([messages |-> L(messages)]))
    IN  /\ pc = before
        /\ pc' = after
        /\ messages' = redacted.argument.d.messages.items
        /\ response' = [response EXCEPT !.prompt_json = redacted.returned]
        /\ UNCHANGED <<inputs, completion, remaining, requests, chunks, tool_calls,
                       usage, emitted, error, stream_state>>

RedactOnce == Redact("redacting", "redacted")

RedactAgain == Redact("redacted", "redacted_again")

NextRedact == RedactOnce \/ RedactAgain

SpecRedact == InitRedact /\ [][NextRedact]_vars

\* ---------------------------------------------------------------------
\* C12: redaction is idempotent: redacting a structure that redact_data
\* has already redacted changes nothing, neither in the structure that was
\* handed in nor in what is returned.
C12_RedactionIsIdempotent ==
    [][pc = "redacted" =>
          /\ messages' = messages
          /\ response'.prompt_json = response.prompt_json]_vars

C12_Witness ==
    /\ pc = "redacted_again"
    /\ HoldsRawMedia(requests[1])
    /\ ~HoldsRawMedia(L(messages))
    /\ response.prompt_json = D([messages |-> L(messages)])
    /\ L(messages) # requests[1]

(***************************************************************************)
(* build_messages over every shape of the current prompt (lines 574-593):  *)
(* with and without system text, user text, attachments and tool results,  *)
(* after a history of at most MaxPast turns.                               *)
(***************************************************************************)
\* The longest history put before the prompts of every shape.
MaxPast == 1

ToolResult2 == [tool_call_id |-> "call_1", output |-> "rain"]

Prompts ==
    { NewPrompt(system, text, attachments, tool_results, <<>>) :
        system \in {None, S("A")},
        text \in {None, S(""), S("hi")},
        attachments \in {<<>>, <<Image>>, <<LinkedImage, Audio>>},
        tool_results \in {<<>>, <<ToolResult1>>, <<ToolResult1, ToolResult2>>} }

InitPrompt ==
    InitWith(Models, Prompts,
             {None} \cup {Conversation(h) : h \in Histories(MaxPast)},
             BOOLEAN, {0, 1})

SpecPrompt == InitPrompt /\ [][Next]_vars

\* The messages of the history, and those build_messages appends for the
\* current prompt.
HistoryMessages ==
    IF conversation # None THEN History(conversation.responses).messages ELSE <<>>

PromptMessages == SubSeq(messages, Len(HistoryMessages) + 1, Len(messages))

Roles(ms) == [i \in DOMAIN ms |-> ms[i].d.role.s]

WithRole(ms, role) == {i \in DOMAIN ms : Roles(ms)[i] = role}

\* ---------------------------------------------------------------------
\* C13: for the current prompt build_messages emits no user message when
\* the prompt has no text and no attachments; otherwise it emits exactly one
\* user message, the last message of the list, after the prompt's system
\* message (if one is emitted) and after one tool message for each of the
\* prompt's tool results.
C13_OneUserMessageLast ==
    (IsChat /\ pc = "sending") =>
        LET own == PromptMessages
            users == WithRole(own, "user")
            tools == WithRole(own, "tool")
            systems == WithRole(own, "system")
        IN  /\ messages = HistoryMessages \o own
            /\ IF ~Truthy(prompt.prompt) /\ prompt.attachments = <<>>
               THEN users = {}
               ELSE /\ users = {Len(own)}
                    /\ messages[Len(messages)].d.role = S("user")
                    /\ prompt.attachments = <<>> =>
                          messages[Len(messages)].d.content = prompt.prompt
            /\ systems \subseteq {1}
            /\ systems # {} => own[1].d.content = prompt.system
            /\ tools = {i + Cardinality(systems) : i \in DOMAIN prompt.tool_results}
            /\ \A i \in DOMAIN prompt.tool_results :
                  own[i + Cardinality(systems)] = ToolMessage(prompt.tool_results[i])
            /\ DOMAIN own = systems \cup tools \cup users

C13_Witness ==
    /\ IsChat
    /\ pc = "sending"
    /\ prompt = NewPrompt(S("A"), S("hi"), <<Image>>, <<ToolResult1, ToolResult2>>, <<>>)
    /\ conversation # None
    /\ HistoryMessages # <<>>
    /\ Roles(PromptMessages) = <<"system", "tool", "tool", "user">>

\* The current prompt as the turn the next call finds last in the history.
AsTurn(p, answer, calls) ==
    NewTurn(p.system, p.prompt, p.attachments, p.tool_results, answer, calls)

NextConversation(answer, calls) ==
    Conversation((IF conversation # None THEN conversation.responses ELSE <<>>)
                 \o <<AsTurn(prompt, answer, calls)>>)

IsPrefix(a, b) == Len(a) <= Len(b) /\ SubSeq(b, 1, Len(a)) = a

\* ---------------------------------------------------------------------
\* C16: the message list is prefix-stable across turns: the list
\* build_messages produces for a prompt as the current prompt is a prefix
\* of the list it produces on the next turn, when that prompt is the last
\* entry of the history, whatever the answer and the next prompt are.
C16_HistoryIsPrefixStable ==
    (IsChat /\ pc = "sending") =>
        \A answer \in {S(""), S("a")}, calls \in {<<>>, <<PastCall>>},
           next \in {TextPrompt, SystemPrompt, ToolPrompt} :
            IsPrefix(messages, build_messages(next, NextConversation(answer, calls)))

\* The same, for the prompts that do not carry tool results together with
\* a user message.
PrefixStableApart ==
    (prompt.tool_results = <<>>
       \/ (~Truthy(prompt.prompt) /\ prompt.attachments = <<>>))
    => C16_HistoryIsPrefixStable

\* The content parts of the last message of a message list.
LastParts(ms) == ms[Len(ms)].d.content.items

\* Where the part of the i-th attachment stands: after the text part.
PartOf(parts, i) == parts[i + (IF Truthy(prompt.prompt) THEN 1 ELSE 0)]

\* ---------------------------------------------------------------------
\* C14: an image attachment is sent as an image-url part whose URL is the
\* attachment's own URL when it has one and otherwise the data URL
\* data:<mime>;base64,<payload> (image/png with payload AAAA gives
\* data:image/png;base64,AAAA); in the redacted copy kept on the record
\* that data URL is the fixed placeholder, and a URL that is not a data URL
\* is kept as it is.
C14_ImagePartsAndTheirRedaction ==
    (IsChat /\ prompt.attachments # <<>> /\ requests # <<>>) =>
        \A i \in DOMAIN prompt.attachments :
            LET attachment == prompt.attachments[i]
                sent == PartOf(LastParts(requests[1].items), i)
            IN  StartsWith(attachment.type, IMAGE_PREFIX) =>
                  /\ DOMAIN sent.d = {"type", "image_url"}
                  /\ sent.d.type = S("image_url")
                  /\ DOMAIN sent.d.image_url.d = {"url"}
                  /\ sent.d.image_url.d.url =
                        IF attachment.url # None
                        THEN attachment.url
                        ELSE S(DATA_PREFIX \o attachment.type \o BASE64_SEP
                               \o attachment.base64)
                  /\ attachment = Image =>
                        sent.d.image_url.d.url.s =
                            <<"d", "a", "t", "a", ":", "i", "m", "a", "g", "e", "/",
                              "p", "n", "g", ";", "b", "a", "s", "e", "6", "4", ",",
                              "A", "A", "A", "A">>
                  /\ pc = "done" =>
                        LET kept == PartOf(LastParts(
                                        response.prompt_json.d.messages.items), i)
                        IN  /\ DOMAIN kept.d = {"type", "image_url"}
                            /\ kept.d.type = S("image_url")
                            /\ kept.d.image_url.d.url =
                                  IF attachment.url # None
                                  THEN attachment.url
                                  ELSE S(<<"d", "a", "t", "a", ":", ".", ".", ".">>)

C14_Witness ==
    /\ IsChat
    /\ pc = "done"
    /\ prompt = MediaPrompt
    /\ PartOf(LastParts(requests[1].items), 1).d.image_url.d.url.s = DATA_URL
    /\ PartOf(LastParts(response.prompt_json.d.messages.items), 1).d.image_url.d.url
          = S(REDACTED_URL)
    /\ PartOf(LastParts(response.prompt_json.d.messages.items), 2).d.image_url.d.url
          = S(HTTPS_URL)

\* The tool-call indexes of the deltas delivered so far, each once, in the
\* order in which they were first seen.
RECURSIVE IndexesOf(_)
IndexesOf(deltas) ==
    IF deltas = <<>> THEN <<>>
    ELSE <<Head(deltas).index>> \o IndexesOf(Tail(deltas))

RECURSIVE DeliveredIndexes(_)
DeliveredIndexes(delivered) ==
    IF delivered = <<>> THEN <<>>
    ELSE (IF Head(delivered).choices = <<>> THEN <<>>
          ELSE IndexesOf(Head(delivered).choices[1].delta.tool_calls))
         \o DeliveredIndexes(Tail(delivered))

RECURSIVE FirstSeen(_)
FirstSeen(indexes) ==
    IF indexes = <<>> THEN <<>>
    ELSE LET earlier == FirstSeen(SubSeq(indexes, 1, Len(indexes) - 1))
             last == indexes[Len(indexes)]
         IN  IF \E i \in DOMAIN earlier : earlier[i] = last
             THEN earlier
             ELSE Append(earlier, last)

IndexesSeen == FirstSeen(DeliveredIndexes(chunks))

\* C15 as stated: in streaming mode the record holds no tool call while
\* fragments remain to be consumed, and after exhaustion it holds exactly
\* one finalized tool call for each distinct index seen in the stream.
C15_OneToolCallPerIndexAfterExhaustion ==
    (IsChat /\ stream) =>
        /\ stream_state # "exhausted" => response.tool_calls = <<>>
        /\ stream_state = "exhausted" =>
              Len(response.tool_calls) = Len(IndexesSeen)

\* ---------------------------------------------------------------------
\* C15 (amended): in streaming mode the record holds no tool call before
\* the stream is exhausted.  After exhaustion a call that completes holds
\* exactly one finalized tool call for each distinct index seen, in the
\* order in which the indexes were first seen; a call that fails holds the
\* tool calls of the indexes before the first one whose accumulated
\* argument text is not valid JSON, and none for that index or a later one.
C15_ToolCallsOnlyAfterExhaustion ==
    (IsChat /\ stream) =>
        /\ stream_state # "exhausted" => response.tool_calls = <<>>
        /\ stream_state = "exhausted" =>
              LET finalized == response.tool_calls
              IN  /\ pc \in {"done", "failed"}
                  /\ Len(finalized) <= Len(IndexesSeen)
                  /\ \A i \in DOMAIN finalized :
                        /\ finalized[i].tool_call_id = ToolDelta(IndexesSeen[i], None).id
                        /\ ParseArguments(tool_calls[i].arguments).ok
                  /\ pc = "done" => Len(finalized) = Len(IndexesSeen)
                  /\ pc = "failed" =>
                        /\ Len(finalized) < Len(IndexesSeen)
                        /\ ~ParseArguments(tool_calls[Len(finalized) + 1].arguments).ok

C15_Witness ==
    /\ IsChat
    /\ stream
    /\ pc = "done"
    /\ emitted # <<>>
    /\ Len(DeliveredIndexes(chunks)) = 3
    /\ IndexesSeen = <<1, 0>>
    /\ Len(response.tool_calls) = 2

\* The texts yielded to the caller, put together.
RECURSIVE Concatenated(_)
Concatenated(texts) ==
    IF texts = <<>> THEN ""
    ELSE Concatenated(SubSeq(texts, 1, Len(texts) - 1)) \o texts[Len(texts)]

\* ---------------------------------------------------------------------
\* C17: in streaming mode, once the stream is drained and response_json is
\* stored, its content is the concatenation of the text fragments that
\* were yielded to the caller, for every chunk sequence, chunks with no
\* choice and chunks with several choices included.
C17_YieldedTextIsTheStoredContent ==
    (stream /\ stream_state = "exhausted" /\ response.response_json # None) =>
        response.response_json.d.content = S(Concatenated(emitted))

\* The same, for the streams in which no chunk has more than one choice.
SingleChoiceStreamsAgree ==
    (\A i \in DOMAIN chunks : Len(chunks[i].choices) <= 1)
    => C17_YieldedTextIsTheStoredContent

\* The record a chat executor leaves when its call has ended, read off what
\* the call sent and received: the request, the fragments or the payload,
\* and the error it ended with, if any.  The two executors run the same
\* statements in different orders: Chat stores response_json before it
\* parses the streamed tool calls (lines 707-718) and after it has read the
\* usage of a payload (lines 726-727), AsyncChat the other way round
\* (lines 793-804, 812-813).
RecordLeftBy(executor) ==
    IF error \in {"NotImplementedError", "TransportFailure"}
    THEN NewResponse
    ELSE LET prompt_json == Redacted(D([messages |-> requests[1]]))
         IN  IF stream
             THEN LET response_json == remove_dict_none_values(combine_chunks(chunks))
                      added == AddToolCalls(<<>>, Accumulated)
                  IN  IF added.ok
                      THEN [response_json |-> response_json,
                            tool_calls |-> added.tool_calls,
                            usage |-> set_usage(None, usage),
                            prompt_json |-> prompt_json]
                      ELSE [response_json |-> IF executor = "Chat"
                                              THEN response_json ELSE None,
                            tool_calls |-> added.tool_calls,
                            usage |-> None,
                            prompt_json |-> None]
             ELSE LET response_json ==
                          remove_dict_none_values(completion_model_dump(completion))
                      added == AddToolCalls(<<>>,
                                   MessageToolCalls(completion.choices[1].message))
                  IN  IF completion.usage = None
                      THEN [NewResponse EXCEPT
                               !.response_json = IF executor = "Chat"
                                                 THEN None ELSE response_json]
                      ELSE IF added.ok
                      THEN [response_json |-> response_json,
                            tool_calls |-> added.tool_calls,
                            usage |-> set_usage(None,
                                                usage_model_dump(completion.usage)),
                            prompt_json |-> prompt_json]
                      ELSE [response_json |-> response_json,
                            tool_calls |-> added.tool_calls,
                            usage |-> None,
                            prompt_json |-> None]

Terminal == pc \in {"done", "failed"}

\* RecordLeftBy describes the executor that ran the call.
RecordLeftByTheCall ==
    (IsChat /\ Terminal) => response = RecordLeftBy(model)

OtherExecutor == IF model = "Chat" THEN "AsyncChat" ELSE "Chat"

\* ---------------------------------------------------------------------
\* C18: the synchronous and the asynchronous executor are equivalent: in
\* every terminal state, Done or Failed, the record the call has left
\* (response_json, tool calls, usage, redacted request) is the record the
\* other executor leaves for the same prompt, conversation, streaming flag
\* and response fragments.
C18_SyncAndAsyncLeaveTheSameRecord ==
    (IsChat /\ Terminal) => response = RecordLeftBy(OtherExecutor)

\* The same, for the calls that complete.
CompletedCallsAgree ==
    (IsChat /\ pc = "done") => response = RecordLeftBy(OtherExecutor)

====
